---- MODULE Spec2Model ----
(***************************************************************************)
(* Model of src/lambdas/CloudFrontCR/lambda_handler.py: the custom         *)
(* resource handler of a CloudFront distribution.                          *)
(*                                                                         *)
(* Reading of the source.  Lines 107-119, 147-158 and 212-231 delimit the  *)
(* branches of `if (wait_for_status)` with braces; they are read as the    *)
(* indented blocks they enclose (line 148 at the depth of the lines that   *)
(* follow it).  Everything else has Python's semantics,                    *)
(* including the errors Python raises for a name that is bound nowhere     *)
(* (NameError), for a call whose arguments do not fit the def (TypeError), *)
(* for a missing key (KeyError) and for a local read before assignment     *)
(* (UnboundLocalError).                                                    *)
(*                                                                         *)
(* One run of the model applies one entry point of the file to one input:  *)
(* the Lambda entry point `handler`, or one of the functions of the file   *)
(* applied, as declared, to arguments of its own.                          *)
(***************************************************************************)
EXTENDS Integers, Sequences, FiniteSets, TLC

(***************************************************************************)
(* Python values.  A value is a record whose field k is its type and whose *)
(* field v is its content: a dict is a function from keys to values, a     *)
(* list a sequence of values.  A raised exception is the value             *)
(* Raised(type).                                                           *)
(***************************************************************************)
PyStr(s) == [k |-> "str", v |-> s]
PyBool(b) == [k |-> "bool", v |-> b]
PyInt(n) == [k |-> "int", v |-> n]
PyNone == [k |-> "none", v |-> 0]
PyDict(f) == [k |-> "dict", v |-> f]
PyList(s) == [k |-> "list", v |-> s]
Raised(e) == [k |-> "exc", v |-> e]

IsExc(x) == x.k = "exc"
EmptyDict == PyDict(<<>>)

\* key in d, for a dict d
Has(d, key) == key \in DOMAIN d.v
\* d[key] for a dict d; KeyError when the key is missing
Get(d, key) == IF Has(d, key) THEN d.v[key] ELSE Raised("KeyError")
\* d[key] = val, as a new dict
Put(d, key, val) ==
  PyDict([x \in (DOMAIN d.v) \cup {key} |-> IF x = key THEN val ELSE d.v[x]])

\* Python's truth value of an object (the test of `if x:`)
Truthy(x) ==
  CASE x.k = "none" -> FALSE
    [] x.k = "bool" -> x.v
    [] x.k = "int" -> x.v # 0
    [] x.k = "str" -> x.v # ""
    [] x.k = "list" -> Len(x.v) > 0
    [] x.k = "dict" -> DOMAIN x.v # {}
    [] OTHER -> TRUE

(***************************************************************************)
(* The characters of the strings of the model.  "sup2" stands for the      *)
(* character SUPERSCRIPT TWO, which str.isnumeric accepts and int rejects. *)
(***************************************************************************)
Chars(s) ==
  CASE s = "" -> <<>>
    [] s = "true" -> <<"t", "r", "u", "e">>
    [] s = "True" -> <<"T", "r", "u", "e">>
    [] s = "FALSE" -> <<"F", "A", "L", "S", "E">>
    [] s = "false" -> <<"f", "a", "l", "s", "e">>
    [] s = "12" -> <<"1", "2">>
    [] s = "007" -> <<"0", "0", "7">>
    [] s = "0" -> <<"0">>
    [] s = "sup2" -> <<"sup2">>
    [] s = "abc" -> <<"a", "b", "c">>
    [] s = "E1" -> <<"E", "1">>
    [] s = "Create" -> <<"C", "r", "e", "a", "t", "e">>
    [] s = "Update" -> <<"U", "p", "d", "a", "t", "e">>
    [] s = "Delete" -> <<"D", "e", "l", "e", "t", "e">>
    [] s = "stack" -> <<"s", "t", "a", "c", "k">>
    [] s = "req" -> <<"r", "e", "q">>
    [] s = "res" -> <<"r", "e", "s">>

DecimalDigits == {"0", "1", "2", "7"}
DigitValue(c) == CASE c = "0" -> 0 [] c = "1" -> 1 [] c = "2" -> 2 [] c = "7" -> 7
NumericChars == DecimalDigits \cup {"sup2"}

LowerChar(c) ==
  CASE c = "T" -> "t" [] c = "F" -> "f" [] c = "A" -> "a" [] c = "L" -> "l"
    [] c = "S" -> "s" [] c = "E" -> "e" [] c = "C" -> "c" [] c = "U" -> "u"
    [] c = "D" -> "d" [] OTHER -> c

\* str.lower(), on the characters
Lower(cs) == [i \in 1..Len(cs) |-> LowerChar(cs[i])]
\* str.isnumeric(): at least one character, all of them numeric
IsNumeric(cs) == Len(cs) > 0 /\ \A i \in 1..Len(cs) : cs[i] \in NumericChars

RECURSIVE DecimalValue(_)
DecimalValue(cs) ==
  IF Len(cs) = 0 THEN 0
  ELSE 10 * DecimalValue(SubSeq(cs, 1, Len(cs) - 1)) + DigitValue(cs[Len(cs)])

\* int(s) for a str s: ValueError unless every character is a decimal digit
IntOf(cs) ==
  IF Len(cs) > 0 /\ \A i \in 1..Len(cs) : cs[i] \in DecimalDigits
  THEN PyInt(DecimalValue(cs))
  ELSE Raised("ValueError")

(***************************************************************************)
(* jsonify, lines 292-315.  A dict and a list are rebuilt entry by entry;  *)
(* a str becomes a bool, an int or itself; for any other object no branch  *)
(* is taken and the function returns None.                                 *)
(***************************************************************************)
RECURSIVE jsonify(_)
jsonify(obj) ==
  CASE obj.k = "dict" ->
         LET r == [key \in DOMAIN obj.v |-> jsonify(obj.v[key])]
         IN IF \E key \in DOMAIN r : IsExc(r[key])
            THEN Raised("ValueError") ELSE PyDict(r)
    [] obj.k = "list" ->
         LET r == [i \in 1..Len(obj.v) |-> jsonify(obj.v[i])]
         IN IF \E i \in 1..Len(r) : IsExc(r[i])
            THEN Raised("ValueError") ELSE PyList(r)
    [] obj.k = "str" ->
         IF Lower(Chars(obj.v)) = Chars("true") THEN PyBool(TRUE)
         ELSE IF Lower(Chars(obj.v)) = Chars("false") THEN PyBool(FALSE)
         ELSE IF IsNumeric(Chars(obj.v)) THEN IntOf(Chars(obj.v))
         ELSE obj
    [] OTHER -> PyNone

(***************************************************************************)
(* The schema (ApiStructure.json, read at line 333) is a sequence of       *)
(* fields in the order of the file: name, Type, Required and, for the      *)
(* object types, the nested schema ObjectFields.                           *)
(***************************************************************************)
Field(name, type, required, fields) ==
  [name |-> name, Type |-> type, Required |-> required, ObjectFields |-> fields]

ScalarTypes == {"Boolean", "String", "Integer"}
ListTypes == {"BooleanList", "StringList", "IntegerList"}

\* generate_random_string, lines 392-393: the file never imports datetime
generate_random_string == Raised("NameError")

\* generate_defaults, lines 385-389: a default for the Random type only; any
\* other type falls off the end of the function, which returns None
generate_defaults(properties) ==
  IF properties.Type = "Random" THEN generate_random_string ELSE PyNone

\* len(x): the entries of a list or dict, the characters of a str
PyLen(x) ==
  CASE x.k = "list" -> PyInt(Len(x.v))
    [] x.k = "dict" -> PyInt(Cardinality(DOMAIN x.v))
    [] x.k = "str" -> PyInt(Len(Chars(x.v)))
    [] OTHER -> Raised("TypeError")

\* `for item in x`: the items of a list, the characters of a str, the keys of
\* a dict (strs; only their number and their type matter to the callers)
Iterate(x) ==
  CASE x.k = "list" -> x
    [] x.k = "str" -> PyList([i \in 1..Len(Chars(x.v)) |-> PyStr(Chars(x.v)[i])])
    [] x.k = "dict" -> PyList([i \in 1..Cardinality(DOMAIN x.v) |-> PyStr("key")])
    [] OTHER -> Raised("TypeError")

(***************************************************************************)
(* The body of convert_structure, lines 334-382, with the two names it     *)
(* reads, provided_structure and api_structure, bound to the arguments of  *)
(* the recursive calls of lines 360 and 369.  A field is emitted, skipped  *)
(* or raises; the first exception ends the conversion.                     *)
(***************************************************************************)
RECURSIVE convert_structure(_, _)
RECURSIVE ConvertField(_, _)
RECURSIVE ConvertFields(_, _, _, _)
RECURSIVE ConvertItems(_, _, _, _)

Emit(val) == [emit |-> TRUE, val |-> val]
Skip == [emit |-> FALSE, val |-> PyNone]

\* lines 366-370: one converted object per item of the provided sequence
ConvertItems(items, fields, i, acc) ==
  IF i > Len(items) THEN PyList(acc)
  ELSE LET new_item == convert_structure(items[i], fields)
       IN IF IsExc(new_item) THEN new_item
          ELSE ConvertItems(items, fields, i + 1, Append(acc, new_item))

\* lines 339-380: one pass of the loop, for the schema field `properties`
ConvertField(provided_structure, properties) ==
  LET name == properties.name
      provided_item ==
        IF provided_structure.k # "dict" THEN Raised("AttributeError")
        ELSE IF Has(provided_structure, name) THEN provided_structure.v[name]
        ELSE PyNone
  IN IF IsExc(provided_item) THEN Emit(provided_item)
     ELSE IF Truthy(provided_item) THEN
       CASE properties.Type = "Random" -> Emit(generate_random_string)
         [] properties.Type \in ScalarTypes -> Emit(provided_item)
         [] properties.Type \in ListTypes ->
              LET n == PyLen(provided_item)
              IN IF IsExc(n) THEN Emit(n)
                 ELSE Emit(PyDict([x \in {"Quantity", "Items"} |->
                             IF x = "Quantity" THEN n ELSE provided_item]))
         [] properties.Type = "Object" ->
              Emit(convert_structure(provided_item, properties.ObjectFields))
         [] properties.Type = "ObjectList" ->
              LET items == Iterate(provided_item)
                  object_list ==
                    IF IsExc(items) THEN items
                    ELSE ConvertItems(items.v, properties.ObjectFields, 1, <<>>)
              IN IF IsExc(object_list) THEN Emit(object_list)
                 ELSE Emit(PyDict([x \in {"Quantity", "Items"} |->
                             IF x = "Quantity" THEN PyInt(Len(object_list.v))
                             ELSE object_list]))
         [] OTHER -> Skip
     ELSE IF properties.Required THEN Emit(generate_defaults(properties))
     ELSE Skip

ConvertFields(provided_structure, api_structure, i, new_structure) ==
  IF i > Len(api_structure) THEN new_structure
  ELSE LET r == ConvertField(provided_structure, api_structure[i])
       IN IF r.emit /\ IsExc(r.val) THEN r.val
          ELSE ConvertFields(provided_structure, api_structure, i + 1,
                 IF r.emit THEN Put(new_structure, api_structure[i].name, r.val)
                 ELSE new_structure)

convert_structure(provided_structure, api_structure) ==
  ConvertFields(provided_structure, api_structure, 1, EmptyDict)

\* preprocess_structure, lines 317-329: IsIPV6Enabled is a copy of the
\* IPV6Enabled of the DistributionConfig; a missing IPV6Enabled is the
\* KeyError the function catches, a missing DistributionConfig is not caught
preprocess_structure(properties) ==
  LET config == Get(properties, "DistributionConfig")
  IN IF IsExc(config) THEN config
     ELSE IF config.k # "dict" THEN Raised("TypeError")
     ELSE IF Has(config, "IPV6Enabled")
          THEN Put(properties, "DistributionConfig",
                   Put(config, "IsIPV6Enabled", config.v["IPV6Enabled"]))
          ELSE properties

\* The call of line 53: the def of line 332 takes the properties alone, reads
\* the schema file, and its loop reads provided_structure (line 339), a name
\* bound nowhere: NameError on the first field of the schema, and the empty
\* structure for a schema without fields.
handler_convert_structure(properties, api_structure) ==
  IF Len(api_structure) > 0 THEN Raised("NameError") ELSE EmptyDict

MkDict(pairs) ==
  PyDict([x \in {p[1] : p \in pairs} |-> (CHOOSE p \in pairs : p[1] = x)[2]])

Unbound == [k |-> "unbound", v |-> 0]

VARIABLES
  entry,       \* the function this run applies
  pc,          \* the line the run has reached, "done" at its end
  obj0, obj1,  \* jsonify: the last argument and the last result
  njson,       \* jsonify: the number of applications so far
  provided,    \* convert_structure: the provided structure
  schema,      \* the content of ApiStructure.json
  converted,   \* convert_structure: the result
  event,       \* the event of the invocation
  event0,      \* the event as the invocation received it
  properties,  \* the properties the lifecycle functions receive
  loc,         \* the local variables of the running functions
  dist,        \* the distribution, on the provider's side
  dist0,       \* the distribution as it was when the run began
  rules,       \* the targets of the CloudWatch rules, by rule name and target Id
  calls,       \* the provider and scheduler calls made so far, in order
  signals,     \* the completion signals sent so far, in order
  exc,         \* the exception the handler's try block raised
  escaped,     \* the exception that left the entry point uncaught
  ret          \* the value the entry point returned

vars == <<entry, pc, obj0, obj1, njson, provided, schema, converted, event,
          event0, properties, loc, dist, dist0, rules, calls, signals, exc, escaped, ret>>

pure == <<obj0, obj1, njson, provided, schema, converted, dist0, event0>>

NoExc == "none"

(***************************************************************************)
(* Inputs.                                                                 *)
(***************************************************************************)
MaxItems == 2

ScalarInputs ==
  {PyStr("true"), PyStr("True"), PyStr("FALSE"), PyStr("12"), PyStr("007"),
   PyStr("abc"), PyStr(""), PyStr("sup2"), PyBool(TRUE), PyBool(FALSE),
   PyInt(0), PyInt(12), PyNone}

LeafInputs == {PyStr("true"), PyStr("12"), PyStr("abc"), PyBool(FALSE), PyInt(12)}

SeqsUpTo(S, n) == UNION {[1..m -> S] : m \in 0..n}

\* the trees jsonify is applied to: scalars, lists and dicts of leaves, and
\* dicts holding a list
TreeInputs ==
  ScalarInputs
  \cup {PyList(q) : q \in SeqsUpTo(LeafInputs, MaxItems)}
  \cup {MkDict({<<"a", x>>}) : x \in ScalarInputs}
  \cup {MkDict({<<"a", x>>, <<"b", PyList(<<y>>)>>}) : x \in LeafInputs, y \in LeafInputs}

\* the schemas: none, a required scalar, optional scalar and list, a required
\* generated field, the nested kinds, and the config with the IPv6 flag
Schemas ==
  { <<>>,
    <<Field("Comment", "String", TRUE, <<>>)>>,
    <<Field("Enabled", "Boolean", FALSE, <<>>),
      Field("Aliases", "StringList", FALSE, <<>>)>>,
    <<Field("CallerReference", "Random", TRUE, <<>>)>>,
    <<Field("Origins", "ObjectList", TRUE,
            <<Field("Id", "String", TRUE, <<>>)>>),
      Field("Logging", "Object", FALSE,
            <<Field("Bucket", "String", FALSE, <<>>)>>)>>,
    <<Field("DistributionConfig", "Object", TRUE,
            <<Field("Comment", "String", FALSE, <<>>),
              Field("IsIPV6Enabled", "Boolean", FALSE, <<>>)>>)>> }

Absent == {}
Opt(key, vals) == {Absent} \cup {{<<key, x>>} : x \in vals}

OriginInputs == {EmptyDict, MkDict({<<"Id", PyStr("abc")>>})}

\* the provided structures: every field present or not, with the empty and
\* the false values among the present ones, and a field no schema describes
ProvidedInputs ==
  {MkDict(c \cup e \cup a \cup o \cup l \cup x) :
     c \in Opt("Comment", {PyStr("abc"), PyStr("")}),
     e \in Opt("Enabled", {PyBool(TRUE), PyBool(FALSE)}),
     a \in Opt("Aliases", {PyList(q) : q \in SeqsUpTo({PyStr("abc")}, MaxItems)}),
     o \in Opt("Origins", {PyList(q) : q \in SeqsUpTo(OriginInputs, MaxItems)}),
     l \in Opt("Logging", {EmptyDict, MkDict({<<"Bucket", PyStr("abc")>>})}),
     x \in Opt("Extra", {PyStr("abc")})}

\* the ResourceProperties of a request, as CloudFormation sends them: every
\* scalar a string
WaitKeys == {"WaitForCreation", "WaitForUpdate", "WaitForDeletion"}
WaitConfig(val) == MkDict({<<key, val>> : key \in WaitKeys})

RawProperties ==
  {MkDict(d \cup u \cup i) :
     d \in Opt("DistributionConfig",
               {MkDict({<<"Comment", PyStr("abc")>>}),
                MkDict({<<"Comment", PyStr("abc")>>, <<"IPV6Enabled", PyStr("true")>>}),
                MkDict({<<"Comment", PyStr("sup2")>>})}),
     u \in Opt("UpdateConfig", {WaitConfig(PyStr("false"))}),
     i \in Opt("IPV6Enabled", {PyStr("true")})}

RequestTypes == {"Create", "Update", "Delete"}

EventOf(rt, phys, rp) ==
  MkDict({<<"RequestType", PyStr(rt)>>, <<"StackId", PyStr("stack")>>,
          <<"RequestId", PyStr("req")>>, <<"LogicalResourceId", PyStr("res")>>}
         \cup phys \cup rp)

Events ==
  {EventOf(rt, phys, rp) :
     rt \in RequestTypes,
     phys \in Opt("PhysicalResourceId", {PyStr("E1")}),
     rp \in Opt("ResourceProperties", RawProperties)}

\* the properties the lifecycle functions are applied to
Helpers ==
  MkDict({<<"PollDistributionsRule", PyStr("poll-rule")>>,
          <<"PollDistributionsFunctionArn", PyStr("poll-arn")>>,
          <<"CleanUpDistributionsRule", PyStr("cleanup-rule")>>,
          <<"CleanUpDistributionsFunctionArn", PyStr("cleanup-arn")>>})

UserTag == MkDict({<<"Key", PyStr("Status")>>, <<"Value", PyStr("abc")>>})
OwnerTag == MkDict({<<"Key", PyStr("Owner")>>, <<"Value", PyStr("abc")>>})

Properties ==
  {MkDict(d \cup t \cup u \cup h) :
     d \in Opt("DistributionConfig",
               {MkDict({<<"Comment", PyStr("abc")>>, <<"Enabled", PyBool(TRUE)>>})}),
     t \in Opt("Tags", {PyList(<<UserTag>>), PyList(<<OwnerTag, UserTag>>)}),
     u \in Opt("UpdateConfig",
               {EmptyDict, WaitConfig(PyBool(TRUE)), WaitConfig(PyBool(FALSE))}),
     h \in Opt("DistributionHelpers", {Helpers})}

\* the distribution before the run: none yet, or one in any status
NoDistribution ==
  [exists |-> FALSE, Status |-> "none", Enabled |-> FALSE, ETag |-> 0,
   Comment |-> <<>>, Aliases |-> 0, Tags |-> <<>>]

Distributions ==
  {[exists |-> TRUE, Status |-> st, Enabled |-> en, ETag |-> 1,
    Comment |-> <<"abc">>, Aliases |-> 1, Tags |-> <<>>] :
     st \in {"InProgress", "Deployed"}, en \in BOOLEAN}

\* the two rules, disabled and without targets
NoRules ==
  [r \in {"poll-rule", "cleanup-rule"} |-> [State |-> "DISABLED", Targets |-> <<>>]]

NoPure ==
  /\ obj0 = PyNone /\ obj1 = PyNone /\ njson = 0
  /\ provided = PyNone /\ converted = Unbound

NoLocals ==
  [stack_arn |-> Unbound, physical_resource_id |-> Unbound,
   lambda_response |-> Unbound, response |-> Unbound, etag |-> Unbound,
   distribution_arn |-> Unbound, outputs |-> Unbound, tags |-> Unbound,
   distribution_config |-> Unbound, config |-> Unbound, args |-> Unbound]

Quiet ==
  /\ rules = NoRules /\ calls = <<>> /\ signals = <<>>
  /\ exc = NoExc /\ escaped = NoExc /\ ret = Unbound

InitJsonify ==
  /\ entry = "jsonify" /\ pc = "j292"
  /\ obj0 \in TreeInputs /\ obj1 = obj0 /\ njson = 0
  /\ provided = PyNone /\ converted = Unbound /\ schema = <<>>
  /\ event = PyNone
  /\ event0 = event
  /\ properties = PyNone /\ loc = NoLocals
  /\ dist = NoDistribution
  /\ dist0 = dist
  /\ Quiet

InitConvert ==
  /\ entry = "convert_structure" /\ pc = "v334"
  /\ Quiet
  /\ obj0 = PyNone /\ obj1 = PyNone /\ njson = 0
  /\ schema \in Schemas
  /\ provided \in ProvidedInputs /\ converted = Unbound
  /\ event = PyNone
  /\ event0 = event
  /\ properties = PyNone /\ loc = NoLocals
  /\ dist = NoDistribution
  /\ dist0 = dist

InitHandler ==
  /\ entry = "handler" /\ pc = "h34"
  /\ Quiet /\ NoPure
  /\ schema \in Schemas
  /\ event \in Events
  /\ event0 = event
  /\ properties = PyNone /\ loc = NoLocals
  /\ dist \in (IF Get(event, "RequestType") = PyStr("Create")
               THEN {NoDistribution} ELSE Distributions)
  /\ dist0 = dist

\* the event of a request after line 34-39, as the functions receive it
UnitEvent == EventOf("Create", {<<"PhysicalResourceId", PyStr("uuid4")>>}, Absent)

InitCreate ==
  /\ entry = "_create_distribution" /\ pc = "c78"
  /\ Quiet /\ NoPure /\ schema = <<>>
  /\ event = UnitEvent
  /\ event0 = event
  /\ properties \in Properties
  /\ loc = [NoLocals EXCEPT !.stack_arn = PyStr("stack")]
  /\ dist = NoDistribution
  /\ dist0 = dist

InitUpdate ==
  /\ entry = "_update_distribution" /\ pc = "u128"
  /\ Quiet /\ NoPure /\ schema = <<>>
  /\ event = PyNone
  /\ event0 = event
  /\ properties \in Properties
  /\ loc = [NoLocals EXCEPT !.physical_resource_id = PyStr("E1")]
  /\ dist \in Distributions
  /\ dist0 = dist

InitDelete ==
  /\ entry = "_delete_distribution" /\ pc = "d178"
  /\ Quiet /\ NoPure /\ schema = <<>>
  /\ event = PyNone
  /\ event0 = event
  /\ properties \in Properties
  /\ loc = [NoLocals EXCEPT !.physical_resource_id = PyStr("E1")]
  /\ dist \in Distributions
  /\ dist0 = dist

RuleArgs(rule, arn, id, state) ==
  [rule_name |-> rule, function_arn |-> arn, distribution_id |-> id,
   distribution_arn |-> "arn:" \o id, desired_state |-> state]

DistributionIds == {"E1", "E2"}

\* the payloads of an earlier registration for E1: the one of lines 272-282,
\* for an earlier request, and the one of lines 248-252
EarlierPollInput ==
  [RuleName |-> "poll-rule", DesiredState |-> "Deployed",
   DistributionId |-> "E1", DistributionARN |-> "arn:E1",
   ResourceToSignal |->
     [StackId |-> PyStr("stack"), RequestId |-> PyStr("req0"),
      LogicalResourceId |-> PyStr("res")]]
EarlierCleanupInput ==
  [RuleName |-> "cleanup-rule", DistributionId |-> "E1",
   DistributionARN |-> "arn:E1"]

\* a rule that already holds a target for E1, from an earlier registration
RulesWith(rule, input) ==
  [NoRules EXCEPT ![rule] =
     [State |-> "ENABLED", Targets |-> [x \in {"E1"} |-> input]]]

InitDisableRule ==
  /\ entry = "update_disable_rule" /\ pc = "r241"
  /\ NoPure /\ schema = <<>>
  /\ event = PyNone
  /\ event0 = event
  /\ properties = PyNone
  /\ \E id \in DistributionIds :
       loc = [NoLocals EXCEPT
                !.args = RuleArgs("cleanup-rule", "cleanup-arn", id, "none")]
  /\ dist \in Distributions
  /\ dist0 = dist
  /\ rules \in {NoRules, RulesWith("cleanup-rule", EarlierCleanupInput)}
  /\ calls = <<>> /\ signals = <<>>
  /\ exc = NoExc /\ escaped = NoExc /\ ret = Unbound

InitPollingRule ==
  /\ entry = "update_polling_rule" /\ pc = "p263"
  /\ NoPure /\ schema = <<>>
  /\ event \in {UnitEvent, MkDict({<<"StackId", PyStr("stack")>>})}
  /\ event0 = event
  /\ properties = PyNone
  /\ \E id \in DistributionIds :
       loc = [NoLocals EXCEPT
                !.args = RuleArgs("poll-rule", "poll-arn", id, "Deployed")]
  /\ dist \in Distributions
  /\ dist0 = dist
  /\ rules \in {NoRules, RulesWith("poll-rule", EarlierPollInput)}
  /\ calls = <<>> /\ signals = <<>>
  /\ exc = NoExc /\ escaped = NoExc /\ ret = Unbound

Init ==
  \/ InitJsonify
  \/ InitConvert
  \/ InitHandler
  \/ InitCreate
  \/ InitUpdate
  \/ InitDelete
  \/ InitDisableRule
  \/ InitPollingRule

(***************************************************************************)
(* Control.  An exception raised under the handler's try block goes to the *)
(* except clause of line 68; raised in a function applied on its own it    *)
(* leaves the function.  A lifecycle function that returns to the handler  *)
(* continues at the respond of lines 57-58, 62 or 66.                      *)
(***************************************************************************)
Signal(status, id, body) == [Status |-> status, PhysicalResourceId |-> id, Body |-> body]

Goto(label) == pc' = label /\ UNCHANGED <<signals, exc, escaped, ret>>

Raise(e) ==
  IF entry = "handler"
  THEN pc' = "h68" /\ exc' = e /\ UNCHANGED <<signals, escaped, ret>>
  ELSE pc' = "done" /\ escaped' = e /\ UNCHANGED <<signals, exc, ret>>

\* lambda_response.respond(data=data, NoEcho=False), with id as the payload's
\* PhysicalResourceId
Return(val, id, data) ==
  IF entry = "handler"
  THEN /\ signals' = Append(signals, Signal("SUCCESS", id, data))
       /\ pc' = "h71"
       /\ UNCHANGED <<exc, escaped, ret>>
  ELSE pc' = "done" /\ ret' = val /\ UNCHANGED <<signals, exc, escaped>>

\* a call as the provider or the scheduler receives it; etag is the
\* distribution's ETag at that moment, the one a read returns
Call(api, req, ok) == [api |-> api, ok |-> ok, req |-> req, etag |-> dist.ETag]

(***************************************************************************)
(* jsonify and convert_structure applied on their own.                     *)
(***************************************************************************)
MaxApplications == 2

Jsonify ==
  /\ entry = "jsonify" /\ pc = "j292"
  /\ njson < MaxApplications
  /\ ~IsExc(obj1)
  /\ obj0' = obj1
  /\ obj1' = jsonify(obj1)
  /\ njson' = njson + 1
  /\ UNCHANGED <<entry, pc, provided, schema, converted, event, event0,
                 properties, loc, dist, dist0, rules, calls, signals, exc,
                 escaped, ret>>

Convert ==
  /\ entry = "convert_structure" /\ pc = "v334"
  /\ converted' = convert_structure(provided, schema)
  /\ pc' = "done"
  /\ UNCHANGED <<entry, obj0, obj1, njson, provided, schema, event, event0,
                 properties, loc, dist, dist0, rules, calls, signals, exc,
                 escaped, ret>>

(***************************************************************************)
(* handler, lines 33-71.                                                   *)
(***************************************************************************)
\* HandlerJsonify without the default of lines 37-39
HandlerJsonify_NoDefaultId ==
  /\ entry = "handler" /\ pc = "h34"
  /\ LET e == jsonify(event)
     IN IF IsExc(e)
        THEN /\ pc' = "done" /\ escaped' = e.v
             /\ UNCHANGED <<event, signals, exc, ret>>
        ELSE event' = e /\ Goto("h42")
  /\ UNCHANGED <<entry, pure, properties, loc, dist, rules, calls>>

\* lines 34-39, before the try block: an exception here leaves the handler
HandlerJsonify ==
  /\ entry = "handler" /\ pc = "h34"
  /\ LET e == jsonify(event)
     IN IF IsExc(e)
        THEN /\ pc' = "done" /\ escaped' = e.v
             /\ UNCHANGED <<event, signals, exc, ret>>
        ELSE /\ event' = IF Has(e, "PhysicalResourceId") THEN e
                         ELSE Put(e, "PhysicalResourceId", PyStr("uuid4"))
             /\ Goto("h42")
  /\ UNCHANGED <<entry, pure, properties, loc, dist, rules, calls>>

\* lines 42-50
HandlerProperties ==
  /\ entry = "handler" /\ pc = "h42"
  /\ LET rp == Get(event, "ResourceProperties")
         rp1 == IF Has(rp, "UpdateConfig") THEN rp
                ELSE Put(rp, "UpdateConfig", EmptyDict)
     IN IF IsExc(rp)
        THEN Raise(rp.v) /\ UNCHANGED <<event, properties, loc>>
        ELSE /\ event' = Put(event, "ResourceProperties", rp1)
             /\ properties' = rp1
             /\ loc' = [loc EXCEPT
                          !.lambda_response = Get(event, "PhysicalResourceId"),
                          !.stack_arn = Get(event, "StackId"),
                          !.physical_resource_id = Get(event, "PhysicalResourceId")]
             /\ Goto("h52")
  /\ UNCHANGED <<entry, pure, dist, rules, calls>>

\* line 52
HandlerPreprocess ==
  /\ entry = "handler" /\ pc = "h52"
  /\ LET r == preprocess_structure(properties)
     IN IF IsExc(r) THEN Raise(r.v) /\ UNCHANGED properties
        ELSE properties' = r /\ Goto("h53")
  /\ UNCHANGED <<entry, pure, event, loc, dist, rules, calls>>

\* line 53
HandlerConvert ==
  /\ entry = "handler" /\ pc = "h53"
  /\ LET r == handler_convert_structure(properties, schema)
     IN IF IsExc(r) THEN Raise(r.v) /\ UNCHANGED properties
        ELSE properties' = r /\ Goto("h55")
  /\ UNCHANGED <<entry, pure, event, loc, dist, rules, calls>>

\* lines 55-65: Create calls _create_distribution with the four arguments of
\* its def; Update and Delete call defs of three parameters (lines 124, 163)
\* with four arguments, a TypeError
HandlerDispatch ==
  /\ entry = "handler" /\ pc = "h55"
  /\ LET rt == Get(event, "RequestType")
     IN IF rt = PyStr("Create") THEN Goto("c78")
        ELSE IF rt \in {PyStr("Update"), PyStr("Delete")} THEN Raise("TypeError")
        ELSE Goto("h71")
  /\ UNCHANGED <<entry, pure, event, properties, loc, dist, rules, calls>>

\* lines 68-70: lambda_response is a local of the handler, bound at line 45
HandlerExcept ==
  /\ entry = "handler" /\ pc = "h68"
  /\ IF loc.lambda_response = Unbound
     THEN /\ pc' = "done" /\ escaped' = "UnboundLocalError"
          /\ UNCHANGED <<signals, exc, ret>>
     ELSE /\ signals' = Append(signals, Signal("FAILED", loc.lambda_response, exc))
          /\ pc' = "h71"
          /\ UNCHANGED <<exc, escaped, ret>>
  /\ UNCHANGED <<entry, pure, event, properties, loc, dist, rules, calls>>

\* line 71
HandlerReturn ==
  /\ entry = "handler" /\ pc = "h71"
  /\ pc' = "done" /\ ret' = PyStr("OK")
  /\ UNCHANGED <<entry, pure, event, properties, loc, dist, rules, calls,
                 signals, exc, escaped>>

(***************************************************************************)
(* The provider.  Every call may fail; an update or a delete is accepted   *)
(* only with the current ETag.                                             *)
(***************************************************************************)
NewId == "ENEW"
ArnOf(id) == "arn:" \o id
Outputs(id) ==
  MkDict({<<"Id", PyStr(id)>>, <<"ARN", PyStr(ArnOf(id))>>,
          <<"DomainName", PyStr(id \o ".cloudfront.net")>>})

Tag(key, value) == MkDict({<<"Key", PyStr(key)>>, <<"Value", value>>})

\* the wait preference, properties['UpdateConfig'].get(key, True)
WaitFor(key) ==
  LET uc == Get(properties, "UpdateConfig")
  IN IF IsExc(uc) THEN uc
     ELSE IF uc.k # "dict" THEN Raised("AttributeError")
     ELSE IF Has(uc, key) THEN uc.v[key] ELSE PyBool(TRUE)

\* properties['DistributionHelpers'][a] and [b], the first two arguments of
\* the calls of update_polling_rule and update_disable_rule
HelperArgs(a, b) ==
  LET h == Get(properties, "DistributionHelpers")
  IN IF IsExc(h) THEN h
     ELSE IF ~Has(h, a) \/ ~Has(h, b) THEN Raised("KeyError")
     ELSE PyList(<<h.v[a], h.v[b]>>)

(***************************************************************************)
(* _create_distribution, lines 74-121.                                     *)
(***************************************************************************)
\* CreateConfig with the tags merged by key: a user tag replaces the fixed tag
\* of its key
CreateConfig_UserTagsOverride ==
  /\ pc = "c78"
  /\ LET user == IF Has(properties, "Tags")
                 THEN Iterate(properties.v["Tags"]) ELSE PyList(<<>>)
         config == Get(properties, "DistributionConfig")
     IN IF IsExc(user) THEN Raise(user.v) /\ UNCHANGED loc
        ELSE IF IsExc(config) THEN Raise(config.v) /\ UNCHANGED loc
        ELSE /\ loc' = [loc EXCEPT
                          !.tags = PyList(
                            SelectSeq(<<Tag("Status", PyStr("Created")),
                                        Tag("StackARN", loc.stack_arn)>>,
                                      LAMBDA t : \A u \in DOMAIN user.v :
                                                   Get(user.v[u], "Key") # Get(t, "Key"))
                            \o user.v),
                          !.distribution_config = config]
             /\ Goto("c92")
  /\ UNCHANGED <<entry, pure, event, properties, dist, rules, calls>>

\* lines 78-89: the fixed tags, then the user's
CreateConfig ==
  /\ pc = "c78"
  /\ LET user == IF Has(properties, "Tags")
                 THEN Iterate(properties.v["Tags"]) ELSE PyList(<<>>)
         config == Get(properties, "DistributionConfig")
     IN IF IsExc(user) THEN Raise(user.v) /\ UNCHANGED loc
        ELSE IF IsExc(config) THEN Raise(config.v) /\ UNCHANGED loc
        ELSE /\ loc' = [loc EXCEPT
                          !.tags = PyList(<<Tag("Status", PyStr("Created")),
                                            Tag("StackARN", loc.stack_arn)>>
                                          \o user.v),
                          !.distribution_config = config]
             /\ Goto("c92")
  /\ UNCHANGED <<entry, pure, event, properties, dist, rules, calls>>

\* line 92-101
CreateCall ==
  /\ pc = "c92"
  /\ \E ok \in BOOLEAN :
       /\ calls' = Append(calls,
            Call("create_distribution_with_tags",
                 [DistributionConfig |-> loc.distribution_config, Tags |-> loc.tags],
                 ok))
       /\ IF ok
          THEN /\ dist' = [exists |-> TRUE, Status |-> "InProgress",
                           Enabled |-> TRUE, ETag |-> 1, Comment |-> <<"abc">>,
                           Aliases |-> 0, Tags |-> loc.tags.v]
               /\ loc' = [loc EXCEPT !.outputs = Outputs(NewId)]
               /\ Goto("c106")
          ELSE Raise("ClientError") /\ UNCHANGED <<dist, loc>>
  /\ UNCHANGED <<entry, pure, event, properties, rules>>

\* lines 106-121: the arguments of the call of update_polling_rule are
\* evaluated in order, and the third, physical_resource_id, is neither a
\* parameter nor a local of this function nor a global: NameError
CreateWait ==
  /\ pc = "c106"
  /\ LET wait_for_status == WaitFor("WaitForCreation")
         args == HelperArgs("PollDistributionsRule", "PollDistributionsFunctionArn")
     IN IF IsExc(wait_for_status) THEN Raise(wait_for_status.v)
        ELSE IF Truthy(wait_for_status)
        THEN IF IsExc(args) THEN Raise(args.v) ELSE Raise("NameError")
        ELSE Return(loc.outputs, Get(loc.outputs, "Id"), loc.outputs)
  /\ UNCHANGED <<entry, pure, event, properties, loc, dist, rules, calls>>

(***************************************************************************)
(* _update_distribution, lines 124-160.                                    *)
(***************************************************************************)
\* lines 128-131
UpdateGetConfig ==
  /\ pc = "u128"
  /\ \E ok \in BOOLEAN :
       LET config == Get(properties, "DistributionConfig")
       IN /\ calls' = Append(calls,
               Call("get_distribution_config", [Id |-> loc.physical_resource_id],
                    ok /\ dist.exists))
          /\ IF ~(ok /\ dist.exists) THEN Raise("ClientError") /\ UNCHANGED loc
             ELSE IF IsExc(config) THEN Raise(config.v) /\ UNCHANGED loc
             ELSE /\ loc' = [loc EXCEPT !.etag = dist.ETag,
                                        !.distribution_config = config]
                  /\ Goto("u134")
  /\ UNCHANGED <<entry, pure, event, properties, dist, rules>>

\* lines 134-143
UpdateCall ==
  /\ pc = "u134"
  /\ \E ok \in BOOLEAN :
       LET accepted == ok /\ dist.exists /\ loc.etag = dist.ETag
       IN /\ calls' = Append(calls,
               Call("update_distribution",
                    [Id |-> loc.physical_resource_id,
                     DistributionConfig |-> loc.distribution_config,
                     IfMatch |-> loc.etag],
                    accepted))
          /\ IF accepted
             THEN /\ dist' = [dist EXCEPT !.Status = "InProgress",
                                          !.ETag = dist.ETag + 1]
                  /\ loc' = [loc EXCEPT !.outputs = Outputs(loc.physical_resource_id.v)]
                  /\ Goto("u146")
             ELSE Raise("ClientError") /\ UNCHANGED <<dist, loc>>
  /\ UNCHANGED <<entry, pure, event, properties, rules>>

\* lines 146-160: the fourth argument of the call of update_polling_rule,
\* distribution_arn, is bound nowhere in this function: NameError
UpdateWait ==
  /\ pc = "u146"
  /\ LET wait_for_status == WaitFor("WaitForUpdate")
         args == HelperArgs("PollDistributionsRule", "PollDistributionsFunctionArn")
     IN IF IsExc(wait_for_status) THEN Raise(wait_for_status.v)
        ELSE IF Truthy(wait_for_status)
        THEN IF IsExc(args) THEN Raise(args.v) ELSE Raise("NameError")
        ELSE Return(loc.outputs, loc.lambda_response, loc.outputs)
  /\ UNCHANGED <<entry, pure, event, properties, loc, dist, rules, calls>>

(***************************************************************************)
(* _delete_distribution, lines 163-233.                                    *)
(***************************************************************************)
DeletionMarker == "Scheduled for deletion - "

\* lines 178-180
DeleteGet ==
  /\ pc = "d178"
  /\ \E ok \in BOOLEAN :
       /\ calls' = Append(calls,
            Call("get_distribution", [Id |-> loc.physical_resource_id],
                 ok /\ dist.exists))
       /\ IF ok /\ dist.exists
          THEN /\ loc' = [loc EXCEPT !.response =
                            [Status |-> dist.Status, Enabled |-> dist.Enabled,
                             ETag |-> dist.ETag]]
               /\ Goto(IF dist.Status = "Deployed" /\ dist.Enabled = FALSE
                       THEN "d183" ELSE "d192")
          ELSE Raise("ClientError") /\ UNCHANGED loc
  /\ UNCHANGED <<entry, pure, event, properties, dist, rules>>

\* lines 181-187: the delete, whose failure is logged and ignored
DeleteCall ==
  /\ pc = "d183"
  /\ \E ok \in BOOLEAN :
       LET accepted == ok /\ dist.exists /\ loc.response.ETag = dist.ETag
       IN /\ calls' = Append(calls,
               Call("delete_distribution",
                    [Id |-> loc.physical_resource_id, IfMatch |-> loc.response.ETag],
                    accepted))
          /\ dist' = IF accepted THEN NoDistribution ELSE dist
  /\ Return(PyNone, loc.lambda_response, EmptyDict)
  /\ UNCHANGED <<entry, pure, event, properties, loc, rules>>

\* lines 192-196
DeleteGetConfig ==
  /\ pc = "d192"
  /\ \E ok \in BOOLEAN :
       /\ calls' = Append(calls,
            Call("get_distribution_config", [Id |-> loc.physical_resource_id],
                 ok /\ dist.exists))
       /\ IF ok /\ dist.exists
          THEN /\ loc' = [loc EXCEPT
                            !.etag = dist.ETag,
                            !.config = [Enabled |-> dist.Enabled,
                                        Comment |-> dist.Comment,
                                        Aliases |-> dist.Aliases]]
               /\ Goto("d198")
          ELSE Raise("ClientError") /\ UNCHANGED loc
  /\ UNCHANGED <<entry, pure, event, properties, dist, rules>>

\* DeleteDisable with the ETag of the get_distribution of line 178 instead of
\* the one of line 195
DeleteDisable_EarlierToken ==
  /\ pc = "d198"
  /\ \E ok \in BOOLEAN :
       LET config == [Enabled |-> FALSE,
                      Comment |-> <<DeletionMarker>> \o loc.config.Comment,
                      Aliases |-> 0]
           accepted == ok /\ dist.exists /\ loc.response.ETag = dist.ETag
       IN /\ calls' = Append(calls,
               Call("update_distribution",
                    [Id |-> loc.physical_resource_id, DistributionConfig |-> config,
                     IfMatch |-> loc.response.ETag],
                    accepted))
          /\ IF accepted
             THEN /\ dist' = [dist EXCEPT !.Status = "InProgress",
                                          !.Enabled = FALSE,
                                          !.Comment = config.Comment,
                                          !.Aliases = 0,
                                          !.ETag = dist.ETag + 1]
                  /\ loc' = [loc EXCEPT
                               !.config = config,
                               !.distribution_arn = ArnOf(loc.physical_resource_id.v)]
                  /\ Goto("d208")
             ELSE Raise("ClientError") /\ UNCHANGED <<dist, loc>>
  /\ UNCHANGED <<entry, pure, event, properties, rules>>

\* lines 198-207: the config is disabled, marked and stripped of its aliases,
\* and sent with the ETag of line 195
DeleteDisable ==
  /\ pc = "d198"
  /\ \E ok \in BOOLEAN :
       LET config == [Enabled |-> FALSE,
                      Comment |-> <<DeletionMarker>> \o loc.config.Comment,
                      Aliases |-> 0]
           accepted == ok /\ dist.exists /\ loc.etag = dist.ETag
       IN /\ calls' = Append(calls,
               Call("update_distribution",
                    [Id |-> loc.physical_resource_id, DistributionConfig |-> config,
                     IfMatch |-> loc.etag],
                    accepted))
          /\ IF accepted
             THEN /\ dist' = [dist EXCEPT !.Status = "InProgress",
                                          !.Enabled = FALSE,
                                          !.Comment = config.Comment,
                                          !.Aliases = 0,
                                          !.ETag = dist.ETag + 1]
                  /\ loc' = [loc EXCEPT
                               !.config = config,
                               !.distribution_arn = ArnOf(loc.physical_resource_id.v)]
                  /\ Goto("d208")
             ELSE Raise("ClientError") /\ UNCHANGED <<dist, loc>>
  /\ UNCHANGED <<entry, pure, event, properties, rules>>

\* DeleteTag with the failure of tag_resource caught and ignored
DeleteTag_Swallowed ==
  /\ pc = "d208"
  /\ \E ok \in BOOLEAN :
       LET tags == <<Tag("Status", PyStr("Deleting"))>>
       IN /\ calls' = Append(calls,
               Call("tag_resource",
                    [Resource |-> loc.distribution_arn, Tags |-> tags],
                    ok /\ dist.exists))
          /\ IF ok /\ dist.exists
             THEN dist' = [dist EXCEPT !.Tags = tags] /\ Goto("d211")
             ELSE Goto("d211") /\ UNCHANGED dist
  /\ UNCHANGED <<entry, pure, event, properties, loc, rules>>

\* lines 208-209
DeleteTag ==
  /\ pc = "d208"
  /\ \E ok \in BOOLEAN :
       LET tags == <<Tag("Status", PyStr("Deleting"))>>
       IN /\ calls' = Append(calls,
               Call("tag_resource",
                    [Resource |-> loc.distribution_arn, Tags |-> tags],
                    ok /\ dist.exists))
          /\ IF ok /\ dist.exists
             THEN dist' = [dist EXCEPT !.Tags = tags] /\ Goto("d211")
             ELSE Raise("ClientError") /\ UNCHANGED dist
  /\ UNCHANGED <<entry, pure, event, properties, loc, rules>>

\* lines 211-231: with the wait, the call of update_polling_rule passes the
\* keywords enabled and resource_to_signal, which the def of line 262 does not
\* take, and no event: TypeError.  Without it, update_disable_rule is called.
DeleteWait ==
  /\ pc = "d211"
  /\ LET wait_for_status == WaitFor("WaitForDeletion")
         poll == HelperArgs("PollDistributionsRule", "PollDistributionsFunctionArn")
         clean == HelperArgs("CleanUpDistributionsRule",
                             "CleanUpDistributionsFunctionArn")
     IN IF IsExc(wait_for_status) THEN Raise(wait_for_status.v) /\ UNCHANGED loc
        ELSE IF Truthy(wait_for_status)
        THEN (IF IsExc(poll) THEN Raise(poll.v) ELSE Raise("TypeError"))
             /\ UNCHANGED loc
        ELSE IF IsExc(clean) THEN Raise(clean.v) /\ UNCHANGED loc
        ELSE /\ loc' = [loc EXCEPT !.args =
                          [rule_name |-> clean.v[1].v,
                           function_arn |-> clean.v[2].v,
                           distribution_id |-> loc.physical_resource_id.v,
                           distribution_arn |-> loc.distribution_arn,
                           desired_state |-> "none"]]
             /\ Goto("r241")
  /\ UNCHANGED <<entry, pure, event, properties, dist, rules, calls>>

(***************************************************************************)
(* The scheduler: put_targets sets the target of that Id of the rule,      *)
(* put_rule its state.                                                     *)
(***************************************************************************)
PutTarget(rule, target) ==
  [rules EXCEPT ![rule].Targets =
     [x \in (DOMAIN @) \cup {target.Id} |->
        IF x = target.Id THEN target.Input ELSE @[x]]]

\* DisableTarget with the failure of put_targets caught and ignored
DisableTarget_FailureIgnored ==
  /\ pc = "r241"
  /\ \E ok \in BOOLEAN :
       LET a == loc.args
           target == [Id |-> a.distribution_id, Arn |-> a.function_arn,
                      Input |-> [RuleName |-> a.rule_name,
                                 DistributionId |-> a.distribution_id,
                                 DistributionARN |-> a.distribution_arn]]
       IN /\ calls' = Append(calls,
               Call("put_targets", [Rule |-> a.rule_name, Targets |-> <<target>>], ok))
          /\ IF ok THEN rules' = PutTarget(a.rule_name, target) /\ Goto("r259")
             ELSE Goto("r259") /\ UNCHANGED rules
  /\ UNCHANGED <<entry, pure, event, properties, loc, dist>>

\* update_disable_rule, lines 241-256
DisableTarget ==
  /\ pc = "r241"
  /\ \E ok \in BOOLEAN :
       LET a == loc.args
           target == [Id |-> a.distribution_id, Arn |-> a.function_arn,
                      Input |-> [RuleName |-> a.rule_name,
                                 DistributionId |-> a.distribution_id,
                                 DistributionARN |-> a.distribution_arn]]
       IN /\ calls' = Append(calls,
               Call("put_targets", [Rule |-> a.rule_name, Targets |-> <<target>>], ok))
          /\ IF ok THEN rules' = PutTarget(a.rule_name, target) /\ Goto("r259")
             ELSE Raise("ClientError") /\ UNCHANGED rules
  /\ UNCHANGED <<entry, pure, event, properties, loc, dist>>

\* update_disable_rule, line 259, and the return to line 233
DisableRule ==
  /\ pc = "r259"
  /\ \E ok \in BOOLEAN :
       /\ calls' = Append(calls,
            Call("put_rule", [Name |-> loc.args.rule_name, State |-> "ENABLED"], ok))
       /\ IF ok
          THEN /\ rules' = [rules EXCEPT ![loc.args.rule_name].State = "ENABLED"]
               /\ Return(PyNone, loc.lambda_response, EmptyDict)
          ELSE Raise("ClientError") /\ UNCHANGED rules
  /\ UNCHANGED <<entry, pure, event, properties, loc, dist>>

\* PollingTarget with the target keyed by the request instead of the
\* distribution
PollingTarget_KeyedByRequest ==
  /\ pc = "p263"
  /\ \E ok \in BOOLEAN :
       LET a == loc.args
           complete == \A key \in {"StackId", "RequestId", "LogicalResourceId"} :
                          Has(event, key)
           target == [Id |-> event.v["RequestId"].v, Arn |-> a.function_arn,
                      Input |-> [RuleName |-> a.rule_name,
                                 DesiredState |-> a.desired_state,
                                 DistributionId |-> a.distribution_id,
                                 DistributionARN |-> a.distribution_arn,
                                 ResourceToSignal |->
                                   [StackId |-> event.v["StackId"],
                                    RequestId |-> event.v["RequestId"],
                                    LogicalResourceId |-> event.v["LogicalResourceId"]]]]
       IN IF ~complete
          THEN Raise("KeyError") /\ UNCHANGED <<rules, calls>>
          ELSE /\ calls' = Append(calls,
                    Call("put_targets", [Rule |-> a.rule_name, Targets |-> <<target>>],
                         ok))
               /\ IF ok THEN rules' = PutTarget(a.rule_name, target) /\ Goto("p289")
                  ELSE Raise("ClientError") /\ UNCHANGED rules
  /\ UNCHANGED <<entry, pure, event, properties, loc, dist>>

\* update_polling_rule, lines 263-286
PollingTarget ==
  /\ pc = "p263"
  /\ \E ok \in BOOLEAN :
       LET a == loc.args
           complete == \A key \in {"StackId", "RequestId", "LogicalResourceId"} :
                          Has(event, key)
           target == [Id |-> a.distribution_id, Arn |-> a.function_arn,
                      Input |-> [RuleName |-> a.rule_name,
                                 DesiredState |-> a.desired_state,
                                 DistributionId |-> a.distribution_id,
                                 DistributionARN |-> a.distribution_arn,
                                 ResourceToSignal |->
                                   [StackId |-> event.v["StackId"],
                                    RequestId |-> event.v["RequestId"],
                                    LogicalResourceId |-> event.v["LogicalResourceId"]]]]
       IN IF ~complete
          THEN Raise("KeyError") /\ UNCHANGED <<rules, calls>>
          ELSE /\ calls' = Append(calls,
                    Call("put_targets", [Rule |-> a.rule_name, Targets |-> <<target>>],
                         ok))
               /\ IF ok THEN rules' = PutTarget(a.rule_name, target) /\ Goto("p289")
                  ELSE Raise("ClientError") /\ UNCHANGED rules
  /\ UNCHANGED <<entry, pure, event, properties, loc, dist>>

\* update_polling_rule, line 289
PollingRule ==
  /\ pc = "p289"
  /\ \E ok \in BOOLEAN :
       /\ calls' = Append(calls,
            Call("put_rule", [Name |-> loc.args.rule_name, State |-> "ENABLED"], ok))
       /\ IF ok
          THEN /\ rules' = [rules EXCEPT ![loc.args.rule_name].State = "ENABLED"]
               /\ Return(PyNone, loc.lambda_response, EmptyDict)
          ELSE Raise("ClientError") /\ UNCHANGED rules
  /\ UNCHANGED <<entry, pure, event, properties, loc, dist>>

(***************************************************************************)
(* The provider's own progress and the other writers of the distribution,  *)
(* while a run is under way.                                               *)
(***************************************************************************)
MaxETag == 3

Deploy ==
  /\ pc # "done" /\ dist.exists /\ dist.Status = "InProgress"
  /\ dist' = [dist EXCEPT !.Status = "Deployed"]
  /\ UNCHANGED <<entry, pc, pure, event, properties, loc, rules, calls, signals,
                 exc, escaped, ret>>

OtherWriter ==
  /\ pc # "done" /\ dist.exists /\ dist.ETag < MaxETag
  /\ dist' = [dist EXCEPT !.ETag = dist.ETag + 1]
  /\ UNCHANGED <<entry, pc, pure, event, properties, loc, rules, calls, signals,
                 exc, escaped, ret>>

Next ==
  \/ Jsonify
  \/ Convert
  \/ HandlerJsonify
  \/ HandlerProperties
  \/ HandlerPreprocess
  \/ HandlerConvert
  \/ HandlerDispatch
  \/ HandlerExcept
  \/ HandlerReturn
  \/ CreateConfig
  \/ CreateCall
  \/ CreateWait
  \/ UpdateGetConfig
  \/ UpdateCall
  \/ UpdateWait
  \/ DeleteGet
  \/ DeleteCall
  \/ DeleteGetConfig
  \/ DeleteDisable
  \/ DeleteTag
  \/ DeleteWait
  \/ DisableTarget
  \/ DisableRule
  \/ PollingTarget
  \/ PollingRule
  \/ Deploy
  \/ OtherWriter

Spec == Init /\ [][Next]_vars

(***************************************************************************)
(* The claims.                                                             *)
(***************************************************************************)
Done == pc = "done"
InHandler == entry = "handler"

CallsTo(api) == {i \in DOMAIN calls : calls[i].api = api}
Succeeded(api) == \E i \in CallsTo(api) : calls[i].ok
ApiOrder == [i \in DOMAIN calls |-> calls[i].api]

\* the request of a handler run, which lines 34-43 only extend
RequestType == Get(event, "RequestType").v
WellFormed ==
  /\ Has(event, "ResourceProperties")
  /\ Has(Get(event, "ResourceProperties"), "DistributionConfig")

\* C1: every lifecycle request that has ended has sent exactly one completion
\* signal, neither none nor two.
C1_ExactlyOneSignal ==
  (InHandler /\ Done /\ WellFormed) => Len(signals) = 1

\* C7: whatever fails in an invocation, the handler catches it and sends
\* exactly one FAILED signal that carries the cause; nothing escapes.
C7_EveryFailureSignalled ==
  (InHandler /\ Done /\ (exc # NoExc \/ escaped # NoExc)) =>
     /\ escaped = NoExc
     /\ Len(signals) = 1
     /\ signals[1].Status = "FAILED"
     /\ signals[1].Body = exc

\* C10: jsonify is idempotent: applied to its own result it returns that
\* result.
C10_JsonifyIdempotent ==
  (entry = "jsonify" /\ njson = 2) => obj1 = obj0

\* the wait preference of a lifecycle function applied on its own, and the
\* properties under which the preference and the rule names can be read
WaitKey ==
  CASE entry = "_create_distribution" -> "WaitForCreation"
    [] entry = "_update_distribution" -> "WaitForUpdate"
    [] OTHER -> "WaitForDeletion"
Configured ==
  /\ Has(properties, "UpdateConfig")
  /\ Has(properties, "DistributionHelpers")
  /\ Has(properties, "DistributionConfig")
Waits == Truthy(WaitFor(WaitKey))

PollTargets == rules["poll-rule"].Targets
CleanupTargets == rules["cleanup-rule"].Targets
PollingRegistered(state) ==
  \E id \in DOMAIN PollTargets : PollTargets[id].DesiredState = state

\* No run of the handler and no run of a lifecycle function reaches the body of
\* update_polling_rule: each of its three call sites raises first.
PollingNeverRegistered ==
  entry # "update_polling_rule" =>
     (DOMAIN PollTargets = {} /\ pc \notin {"p263", "p289"})

\* C3: once the create or the update call has succeeded, the default and the
\* true wait preference register a deferred task for Deployed and send no
\* signal; the false preference registers nothing and hands the outputs Id,
\* ARN and DomainName to the SUCCESS signal.
C3_WaitBranch ==
  ( /\ Done
    /\ entry \in {"_create_distribution", "_update_distribution"}
    /\ Configured
    /\ Succeeded("create_distribution_with_tags") \/ Succeeded("update_distribution") )
  => IF Waits
     THEN PollingRegistered("Deployed") /\ signals = <<>>
     ELSE /\ DOMAIN PollTargets = {} /\ DOMAIN CleanupTargets = {}
          /\ escaped = NoExc
          /\ ret = loc.outputs
          /\ DOMAIN ret.v = {"Id", "ARN", "DomainName"}

\* the Delete request of a handler run that ended without an escaped exception
DeleteRequest ==
  InHandler /\ Done /\ escaped = NoExc /\ WellFormed /\ RequestType = "Delete"

\* C4: Delete of a distribution observed Deployed and disabled calls the delete
\* once, makes no update, tag or trigger call, and ends with SUCCESS whether
\* the delete succeeds or raises.
C4_DirectDelete ==
  (DeleteRequest /\ dist0.Status = "Deployed" /\ ~dist0.Enabled) =>
     /\ Cardinality(CallsTo("delete_distribution")) = 1
     /\ CallsTo("update_distribution") = {}
     /\ CallsTo("tag_resource") = {}
     /\ CallsTo("put_targets") = {} /\ CallsTo("put_rule") = {}
     /\ Len(signals) = 1 /\ signals[1].Status = "SUCCESS"

RequestWaitsNot ==
  LET rp == Get(event, "ResourceProperties")
  IN /\ Has(rp, "UpdateConfig")
     /\ Has(Get(rp, "UpdateConfig"), "WaitForDeletion")
     /\ Get(Get(rp, "UpdateConfig"), "WaitForDeletion") = PyBool(FALSE)

\* the calls of Delete's disable branch without wait, in their order
DisableSequence ==
  /\ ApiOrder = <<"get_distribution", "get_distribution_config",
                  "update_distribution", "tag_resource", "put_targets", "put_rule">>
  /\ calls[3].req.DistributionConfig.Enabled = FALSE
  /\ calls[3].req.DistributionConfig.Aliases = 0
  /\ Head(calls[3].req.DistributionConfig.Comment) = DeletionMarker
  /\ calls[4].req.Tags = <<Tag("Status", PyStr("Deleting"))>>
  /\ calls[5].req.Rule = "cleanup-rule"
  /\ calls[5].req.Targets[1].Input.DistributionId = calls[1].req.Id.v
  /\ calls[5].req.Targets[1].Input.DistributionARN = calls[4].req.Resource

\* C5: Delete of a distribution that is Deployed and enabled, with wait=false,
\* issues in this order the disabling update, the Status=Deleting tag and the
\* cleanup trigger carrying id and arn; no polling task, no delete call.
C5_DisableThenCleanup ==
  (DeleteRequest /\ RequestWaitsNot /\ dist0.Status = "Deployed" /\ dist0.Enabled
   /\ \A i \in DOMAIN calls : calls[i].ok)
  => /\ DisableSequence
     /\ DOMAIN PollTargets = {}
     /\ CallsTo("delete_distribution") = {}

\* C6: Delete with wait (true or unspecified) of a distribution not yet
\* Deployed-and-disabled registers, after the disabling update and the tag, a
\* deferred task that carries both Deployed and enabled=false, sends no signal
\* and installs no cleanup trigger.
C6_DeleteWaitRegistersTask ==
  ( /\ Done /\ entry = "_delete_distribution" /\ Configured /\ Waits
    /\ Succeeded("update_distribution") /\ Succeeded("tag_resource") )
  => /\ \E id \in DOMAIN PollTargets :
          /\ PollTargets[id].DesiredState = "Deployed"
          /\ "Enabled" \in DOMAIN PollTargets[id]
          /\ PollTargets[id].Enabled = FALSE
     /\ signals = <<>>
     /\ DOMAIN CleanupTargets = {}

FieldsOf(api_structure) == {api_structure[i] : i \in DOMAIN api_structure}

\* a required field of a type other than Random that the provided structure lacks
MissingRequired ==
  \E f \in FieldsOf(schema) :
     f.Required /\ f.Type # "Random" /\ ~Has(provided, f.name)

RECURSIVE Supplies(_, _)
\* the provided structure has every required field, at every level
Supplies(p, api_structure) ==
  /\ p.k = "dict"
  /\ \A f \in FieldsOf(api_structure) :
       /\ f.Required => Has(p, f.name)
       /\ (Has(p, f.name) /\ f.Type = "Object") => Supplies(p.v[f.name], f.ObjectFields)
       /\ (Has(p, f.name) /\ f.Type = "ObjectList") =>
            /\ p.v[f.name].k = "list"
            /\ \A i \in DOMAIN p.v[f.name].v : Supplies(p.v[f.name].v[i], f.ObjectFields)

QuantityItems(c) ==
  /\ c.k = "dict" /\ DOMAIN c.v = {"Quantity", "Items"}
  /\ c.v["Items"].k = "list"
  /\ c.v["Quantity"] = PyInt(Len(c.v["Items"].v))

RECURSIVE ShapeMatches(_, _, _)
\* the converted structure c has the fields of the schema that p provides, each
\* in the form of its type
ShapeMatches(c, p, api_structure) ==
  /\ c.k = "dict"
  /\ DOMAIN c.v = {f.name : f \in {g \in FieldsOf(api_structure) : Has(p, g.name)}}
  /\ \A f \in FieldsOf(api_structure) :
       Has(p, f.name) =>
         CASE f.Type \in ScalarTypes -> c.v[f.name].k \in {"str", "bool", "int", "none"}
           [] f.Type \in ListTypes ->
                QuantityItems(c.v[f.name]) /\ c.v[f.name].v["Items"] = p.v[f.name]
           [] f.Type = "Object" ->
                ShapeMatches(c.v[f.name], p.v[f.name], f.ObjectFields)
           [] f.Type = "ObjectList" ->
                /\ QuantityItems(c.v[f.name])
                /\ Len(c.v[f.name].v["Items"].v) = Len(p.v[f.name].v)
                /\ \A i \in DOMAIN p.v[f.name].v :
                     ShapeMatches(c.v[f.name].v["Items"].v[i], p.v[f.name].v[i],
                                  f.ObjectFields)
           [] OTHER -> c.v[f.name].k = "str"

\* C9: for a provided structure that supplies every required field, the result
\* matches the schema field for field at every level, and every list, the
\* empty one too, is a Quantity/Items pair whose Quantity is the number of
\* Items.
C9_ShapeMatchesSchema ==
  (entry = "convert_structure" /\ Done /\ Supplies(provided, schema)) =>
     ~IsExc(converted) /\ ShapeMatches(converted, provided, schema)

RECURSIVE Normalized(_)
\* the tree the normalizer is to return for the tree t: same keys, same order,
\* true/false strings as booleans, digit strings as integers, the rest as is
Normalized(t) ==
  CASE t.k = "dict" -> PyDict([key \in DOMAIN t.v |-> Normalized(t.v[key])])
    [] t.k = "list" -> PyList([i \in 1..Len(t.v) |-> Normalized(t.v[i])])
    [] t.k = "str" ->
         IF Lower(Chars(t.v)) = Chars("true") THEN PyBool(TRUE)
         ELSE IF Lower(Chars(t.v)) = Chars("false") THEN PyBool(FALSE)
         ELSE IF Len(Chars(t.v)) > 0
                 /\ \A i \in 1..Len(Chars(t.v)) : Chars(t.v)[i] \in DecimalDigits
              THEN PyInt(DecimalValue(Chars(t.v)))
         ELSE t
    [] OTHER -> t

\* C11: jsonify is total and structure-preserving: for every tree it returns,
\* without error, the tree with the same keys and order in which true/false
\* strings are booleans, digit strings are integers and every other scalar
\* (other strings, booleans, integers, null) is unchanged.
C11_JsonifyTotal ==
  (entry = "jsonify" /\ njson >= 1) => obj1 = Normalized(obj0)

\* the id a signal of this invocation is to carry: the provider's on a
\* successful Create, else the request's, else the generated one
ExpectedId(status) ==
  IF status = "SUCCESS" /\ RequestType = "Create" THEN Get(loc.outputs, "Id")
  ELSE IF Has(event0, "PhysicalResourceId") THEN Get(event0, "PhysicalResourceId")
  ELSE PyStr("uuid4")

\* C12: every signal the handler emits carries a non-empty physical resource
\* id: the request's when it has one, else the one generated at lines 37-39,
\* before conversion and provider work, and the provider's on a successful
\* Create.
C12_SignalsCarryId ==
  InHandler =>
    /\ (pc \notin {"h34", "done"} \/ signals # <<>>) => Has(event, "PhysicalResourceId")
    /\ (pc \in {"h34", "h42", "h52", "h53"}) => calls = <<>>
    /\ \A i \in DOMAIN signals :
         /\ signals[i].PhysicalResourceId.k = "str"
         /\ signals[i].PhysicalResourceId.v # ""
         /\ signals[i].PhysicalResourceId = ExpectedId(signals[i].Status)

\* C12 witness: a request without an id has been answered with the generated id
C12_Witness ==
  /\ InHandler /\ Done /\ Len(signals) = 1
  /\ ~Has(event0, "PhysicalResourceId")
  /\ signals[1].PhysicalResourceId = PyStr("uuid4")

\* the request carries IPV6Enabled as the string true next to DistributionConfig
FlagNextToConfig ==
  /\ Has(event0, "ResourceProperties")
  /\ Has(Get(event0, "ResourceProperties"), "DistributionConfig")
  /\ Has(Get(event0, "ResourceProperties"), "IPV6Enabled")
  /\ Get(Get(event0, "ResourceProperties"), "IPV6Enabled") = PyStr("true")

\* the flag is provided nowhere in the request
NoFlag ==
  /\ Has(event0, "ResourceProperties")
  /\ Has(Get(event0, "ResourceProperties"), "DistributionConfig")
  /\ ~Has(Get(event0, "ResourceProperties"), "IPV6Enabled")
  /\ ~Has(Get(Get(event0, "ResourceProperties"), "DistributionConfig"), "IPV6Enabled")

\* the structure p holds IsIPV6Enabled = true, at its top or in its config
HasAlias(p) ==
  /\ p.k = "dict"
  /\ \/ Has(p, "IsIPV6Enabled") /\ Get(p, "IsIPV6Enabled") = PyBool(TRUE)
     \/ /\ Has(p, "DistributionConfig")
        /\ Get(p, "DistributionConfig").k = "dict"
        /\ Has(Get(p, "DistributionConfig"), "IsIPV6Enabled")
        /\ Get(Get(p, "DistributionConfig"), "IsIPV6Enabled") = PyBool(TRUE)

\* C13: for a Create request with IPV6Enabled = "true" next to
\* DistributionConfig, normalization makes the value boolean true, the alias
\* step copies it to IsIPV6Enabled, and the converted structure holds
\* IsIPV6Enabled = true; properties without the flag pass the alias step
\* unchanged.
C13_AliasApplied ==
  (InHandler /\ RequestType = "Create") =>
    /\ (FlagNextToConfig /\ pc \in {"h42", "h52", "h53", "h55"}) =>
         Get(Get(event, "ResourceProperties"), "IPV6Enabled") = PyBool(TRUE)
    /\ (FlagNextToConfig /\ pc = "h53") => HasAlias(properties)
    /\ (FlagNextToConfig /\ Done /\ escaped = NoExc) =>
         exc = NoExc /\ HasAlias(properties)
    /\ (NoFlag /\ pc = "h53") => properties = Get(event, "ResourceProperties")

RECURSIVE ScalarsCopied(_, _, _)
\* every scalar field of the schema that p provides is in c with p's value, at
\* every level the two structures share
ScalarsCopied(c, p, api_structure) ==
  \A f \in FieldsOf(api_structure) :
    (p.k = "dict" /\ Has(p, f.name)) =>
      CASE f.Type \in ScalarTypes ->
             c.k = "dict" /\ Has(c, f.name) /\ c.v[f.name] = p.v[f.name]
        [] f.Type = "Object" ->
             (c.k = "dict" /\ Has(c, f.name)) =>
               ScalarsCopied(c.v[f.name], p.v[f.name], f.ObjectFields)
        [] f.Type = "ObjectList" ->
             (c.k = "dict" /\ Has(c, f.name) /\ QuantityItems(c.v[f.name])
              /\ p.v[f.name].k = "list") =>
               \A i \in DOMAIN p.v[f.name].v :
                 i \in DOMAIN c.v[f.name].v["Items"].v =>
                   ScalarsCopied(c.v[f.name].v["Items"].v[i], p.v[f.name].v[i],
                                 f.ObjectFields)
        [] OTHER -> TRUE

NamesToEmit(p, api_structure) ==
  {f.name : f \in {g \in FieldsOf(api_structure) :
                     Has(p, g.name) \/ (g.Required /\ g.Type = "Random")}}

RECURSIVE NamesExact(_, _, _)
\* c has exactly the names to emit for p, at every level
NamesExact(c, p, api_structure) ==
  /\ c.k = "dict" /\ p.k = "dict"
  /\ DOMAIN c.v = NamesToEmit(p, api_structure)
  /\ \A f \in FieldsOf(api_structure) :
       (Has(p, f.name) /\ Has(c, f.name)) =>
         CASE f.Type = "Object" ->
                NamesExact(c.v[f.name], p.v[f.name], f.ObjectFields)
           [] f.Type = "ObjectList" ->
                /\ QuantityItems(c.v[f.name])
                /\ p.v[f.name].k = "list"
                /\ Len(c.v[f.name].v["Items"].v) = Len(p.v[f.name].v)
                /\ \A i \in DOMAIN p.v[f.name].v :
                     NamesExact(c.v[f.name].v["Items"].v[i], p.v[f.name].v[i],
                                f.ObjectFields)
           [] OTHER -> TRUE

Reads == {"get_distribution", "get_distribution_config"}
Mutating ==
  {"create_distribution_with_tags", "update_distribution", "delete_distribution",
   "tag_resource"}

\* the update call i follows a successful read j of the same distribution, with
\* no provider call of the run between them, and passes the ETag j returned
FreshToken(i) ==
  \E j \in 1..(i - 1) :
    /\ calls[j].api \in Reads /\ calls[j].ok
    /\ calls[j].req.Id = calls[i].req.Id
    /\ \A k \in (j + 1)..(i - 1) : calls[k].api \notin (Reads \cup Mutating)
    /\ calls[i].req.IfMatch = calls[j].etag

\* C16: every update call (of Update and of Delete's disable branch) follows,
\* in the same invocation, a read of the distribution and passes exactly the
\* ETag that read returned, with no mutating call between the two; an ETag
\* from before the invocation is never used.
C16_UpdateUsesFreshToken ==
  \A i \in CallsTo("update_distribution") : FreshToken(i)

\* C16 witness: an update was accepted with an ETag that another writer had
\* set after the run began
C16_Witness ==
  \E i \in CallsTo("update_distribution") :
    calls[i].ok /\ calls[i].req.IfMatch # dist0.ETag

\* the provider calls of the run that failed, the delete of the direct branch
\* (lines 182-187) apart
FailedCalls ==
  {i \in DOMAIN calls :
     /\ ~calls[i].ok
     /\ calls[i].api \in (Reads \cup Mutating) \ {"delete_distribution"}}

FailedSignal(cause) ==
  /\ Len(signals) = 1
  /\ signals[1].Status = "FAILED"
  /\ signals[1].Body = cause

\* C17: a failing create, get, get-config, update or tag call ends the
\* invocation with a FAILED signal: the failing call is the last call of the
\* run, its exception leaves the lifecycle function, the handler's except
\* clause turns an exception of a lifecycle function into one FAILED signal,
\* and no polling or cleanup trigger is registered afterwards.
C17_ProviderFailureFails ==
  /\ \A i \in FailedCalls :
       /\ i = Len(calls)
       /\ rules = NoRules
       /\ IF InHandler
          THEN /\ pc \in {"h68", "h71", "done"} /\ exc = "ClientError"
               /\ pc # "h68" => FailedSignal("ClientError")
          ELSE Done /\ escaped = "ClientError" /\ ret = Unbound /\ signals = <<>>
  /\ (InHandler /\ Done /\ exc # NoExc /\ loc.lambda_response # Unbound) =>
       FailedSignal(exc)

\* C17 witness: the tag call of Delete's disable branch failed after the update
\* had been accepted
C17_Witness ==
  /\ Done /\ entry = "_delete_distribution"
  /\ Succeeded("update_distribution")
  /\ \E i \in FailedCalls : calls[i].api = "tag_resource"

\* the tags of the user, in the order of properties['Tags']
UserTags == IF Has(properties, "Tags") THEN Get(properties, "Tags").v ELSE <<>>

\* C18: the tag list of every create call is Status=Created, StackARN=<stack
\* id of the request>, then the user's tags in their order; a user tag with the
\* key Status or StackARN removes and replaces nothing.
C18_FixedTagsFirst ==
  \A i \in CallsTo("create_distribution_with_tags") :
    LET t == calls[i].req.Tags.v
    IN /\ Len(t) = 2 + Len(UserTags)
       /\ t[1] = Tag("Status", PyStr("Created"))
       /\ t[2] = Tag("StackARN", Get(event, "StackId"))
       /\ SubSeq(t, 3, Len(t)) = UserTags

\* C18 witness: a create call was sent with two user tags, one of them with the
\* key Status
C18_Witness ==
  \E i \in CallsTo("create_distribution_with_tags") :
    /\ Len(UserTags) = 2
    /\ \E u \in DOMAIN UserTags : Get(UserTags[u], "Key") = PyStr("Status")
    /\ Len(calls[i].req.Tags.v) = 4

\* the targets of the polling rule that are for the distribution id
PollTargetsFor(id) ==
  {x \in DOMAIN PollTargets : PollTargets[x].DistributionId = id}

\* C19: every task update_polling_rule registers carries the distribution
\* id, the desired state and the StackId, RequestId and LogicalResourceId of
\* the request that registers it, under the distribution id as its key: a
\* second registration for the same distribution leaves one target, not two.
C19_PollingPayload ==
  \A i \in CallsTo("put_targets") :
    (calls[i].ok /\ calls[i].req.Rule = "poll-rule") =>
      LET id == loc.args.distribution_id
      IN /\ id \in DOMAIN PollTargets
         /\ PollTargets[id].DistributionId = id
         /\ PollTargets[id].DesiredState = loc.args.desired_state
         /\ PollTargets[id].ResourceToSignal =
              [StackId |-> Get(event, "StackId"),
               RequestId |-> Get(event, "RequestId"),
               LogicalResourceId |-> Get(event, "LogicalResourceId")]
         /\ ~IsExc(Get(event, "StackId")) /\ ~IsExc(Get(event, "RequestId"))
         /\ ~IsExc(Get(event, "LogicalResourceId"))
         /\ PollTargetsFor(id) = {id}

\* C19 witness: the rule held a target for E1 from an earlier request, and the
\* registration for E1 has replaced it by the one of this request
C19_Witness ==
  /\ entry = "update_polling_rule" /\ pc = "p289"
  /\ rules["poll-rule"].State = "ENABLED"
  /\ loc.args.distribution_id = "E1"
  /\ DOMAIN PollTargets = {"E1"}
  /\ PollTargets["E1"].ResourceToSignal.RequestId = PyStr("req")

TriggerCalls == CallsTo("put_targets") \cup CallsTo("put_rule")
RuleOf(c) == IF c.api = "put_targets" THEN c.req.Rule ELSE c.req.Name

\* the runs of the Delete operation: the handler on a Delete request, and the
\* functions of the Delete branch applied on their own
OnDelete ==
  \/ entry \in {"_delete_distribution", "update_disable_rule"}
  \/ InHandler /\ RequestType = "Delete"

\* C20: an invocation installs at most one trigger, the polling task or the
\* cleanup trigger and never both, the cleanup trigger on Delete only; it
\* installs it after every provider call of the invocation has succeeded, and
\* sets the target (put_targets) before it enables the rule (put_rule).
C20_OneTriggerLast ==
  /\ Cardinality(CallsTo("put_targets")) <= 1
  /\ Cardinality(CallsTo("put_rule")) <= 1
  /\ \A i, j \in TriggerCalls : RuleOf(calls[i]) = RuleOf(calls[j])
  /\ \A i \in TriggerCalls :
       /\ RuleOf(calls[i]) = "cleanup-rule" => OnDelete
       /\ \A j \in 1..(i - 1) : calls[j].ok
       /\ \A j \in (i + 1)..Len(calls) : j \in TriggerCalls
  /\ \A i \in CallsTo("put_rule") :
       i > 1 /\ calls[i - 1].api = "put_targets" /\ calls[i - 1].ok

\* C20 witness: Delete's disable branch has made its four provider calls and
\* then installed the cleanup trigger, target first
C20_Witness ==
  /\ entry = "_delete_distribution" /\ Done
  /\ ApiOrder = <<"get_distribution", "get_distribution_config",
                  "update_distribution", "tag_resource", "put_targets", "put_rule">>
  /\ \A i \in DOMAIN calls : calls[i].ok
  /\ DOMAIN CleanupTargets = {"E1"} /\ DOMAIN PollTargets = {}
====
